---- MODULE Spec2Model ----
(***************************************************************************)
(* Model of the ARIA desktop supervisor (desktop/src-tauri/src/lib.rs):    *)
(* the shared AriaState record, the commands start_node, stop_node and     *)
(* get_node_status, the helper kill_python_process and the window          *)
(* teardown hook.  Every command is split at the points where it takes one *)
(* of the state's mutexes or awaits I/O, so that concurrent commands       *)
(* interleave exactly where the code lets them.                            *)
(***************************************************************************)
EXTENDS Integers, FiniteSets, Sequences, TLC

\* ---- bounds of the model ------------------------------------------------
NumTasks == 2        \* concurrent command invocations in flight
MaxProcs == 2        \* backend processes spawned over a behaviour
MaxCalls == 3        \* commands begun over a behaviour
MaxSeqCalls == 4     \* commands begun over a behaviour of sequential calls
MaxLockCalls == 2    \* commands begun over a behaviour that follows the mutexes
MaxElapsed == 1     \* largest uptime, in seconds, a status call computes
MaxAttempts == 2     \* readiness attempts explored (the code's budget is ATTEMPT_BUDGET)

\* ---- program constants --------------------------------------------------
ATTEMPT_BUDGET == 60
DEFAULT_PORT == 3000

Tasks == 1..NumTasks
Procs == 1..MaxProcs
None == 0            \* Option::None for the process handle
NoTime == "None"     \* Option::None for start_time
SomeInstant == "Instant"  \* Some(Instant::now())

FormatBase(port) == <<"http://127.0.0.1", port>>

VARIABLES
    node_running,    \* AriaState.node_running
    api_base,        \* AriaState.api_base
    api_port,        \* AriaState.api_port
    python_process,  \* AriaState.python_process: None or the owned Child
    start_time,      \* AriaState.start_time: NoTime or an Instant
    pstate,          \* OS view of every process: "none", "alive", "exited" (not reaped), "reaped"
    kills,           \* number of kill-and-wait sequences aimed at each process
    nprocs,          \* processes spawned so far
    calls,           \* commands begun so far
    destroyed,       \* the application window has been destroyed
    entry,           \* which entry point built the application: "run" (lib.rs) or "main" (main.rs)
    budget,          \* attempt budget of the readiness loop in this behaviour
    tasks            \* per-invocation locals and program counter

vars == <<node_running, api_base, api_port, python_process, start_time,
          pstate, kills, nprocs, calls, destroyed, entry, budget, tasks>>

shared == <<node_running, api_base, api_port, python_process, start_time>>

\* Locals of one command invocation.
IdleTask ==
    [op |-> "none", pc |-> "idle", result |-> "none", 
     port |-> 0, child |-> None, attempt |-> 0, probes |-> 0, ready |-> FALSE,
     sawExit |-> FALSE,
     rRunning |-> FALSE, rBase |-> <<>>, rStart |-> NoTime, uptime |-> 0,
     outRunning |-> FALSE, backend |-> "none",
     resp |-> "none", reported |-> "none", payload |-> "none",
     entryRunning |-> FALSE, entryHandle |-> None,
     peers |-> {}, raced |-> None, target |-> None, checked |-> None,
     lockedAt |-> "none", before |-> <<>>]

AriaStateDefault ==
    /\ node_running = FALSE
    /\ api_base = FormatBase(DEFAULT_PORT)
    /\ api_port = DEFAULT_PORT
    /\ python_process = None
    /\ start_time = NoTime

InitCommon ==
    /\ AriaStateDefault
    /\ pstate = [p \in Procs |-> "none"]
    /\ kills = [p \in Procs |-> 0]
    /\ nprocs = 0
    /\ calls = 0
    /\ destroyed = FALSE
    /\ entry \in {"run", "main"}
    /\ tasks = [t \in Tasks |-> IdleTask]

Init ==
    /\ InitCommon
    /\ budget = MaxAttempts

\* ---- helpers --------------------------------------------------------------

Done(t, res) == [tasks EXCEPT ![t].pc = "done", ![t].result = res]

Goto(t, label) == [tasks EXCEPT ![t].pc = label]

\* start calls that are past their running check and have not returned
InFlightStarts ==
    {u \in Tasks : tasks[u].op = "start" /\ tasks[u].pc \notin {"idle", "s_check", "done"}}

\* start calls that are inside the readiness loop
Pollers ==
    {u \in Tasks : tasks[u].op = "start" /\ tasks[u].pc \in {"s_loop", "s_alive", "s_probe"}}

\* the control API answers only while some spawned backend process is alive
BackendCanAnswer == \E p \in Procs : pstate[p] = "alive"

\* kill_python_process killing and waiting for the stored child but keeping the handle
KillStoredKeepsHandle ==
    /\ IF python_process # None
       THEN /\ pstate' = [pstate EXCEPT ![python_process] = "reaped"]
            /\ kills' = [kills EXCEPT ![python_process] = @ + 1]
       ELSE UNCHANGED <<pstate, kills>>
    /\ python_process' = python_process

\* kill_python_process: kill and wait for the stored child, then clear the handle
KillStored ==
    /\ IF python_process # None
       THEN /\ pstate' = [pstate EXCEPT ![python_process] = "reaped"]
            /\ kills' = [kills EXCEPT ![python_process] = @ + 1]
       ELSE UNCHANGED <<pstate, kills>>
    /\ python_process' = None

\* ---- environment ------------------------------------------------------------

\* a backend process exits on its own
ProcessExits(p) ==
    /\ pstate[p] = "alive"
    /\ pstate' = [pstate EXCEPT ![p] = "exited"]
    /\ UNCHANGED <<shared, kills, nprocs, calls, destroyed, entry, budget, tasks>>

\* ---- command dispatch ---------------------------------------------------------

\* a command is invoked in task t; where the order of the calls is followed
\* (sequential executions) hist lists the calls that returned before it
Invoke(t, op, hist) ==
    /\ tasks[t].pc \in {"idle", "done"}
    /\ ~destroyed
    /\ calls' = calls + 1
    /\ tasks' = [u \in Tasks |->
                    IF u = t
                    THEN [IdleTask EXCEPT !.op = op,
                                          !.before = hist,
                                          !.pc = CASE op = "start"  -> "s_check"
                                                   [] op = "stop"   -> "p_check"
                                                   [] op = "status" -> "g_running"
                                                   [] OTHER         -> "x_running"]
                    ELSE [tasks[u] EXCEPT !.peers = @ \ {t}]]
    /\ UNCHANGED <<shared, pstate, kills, nprocs, destroyed, entry, budget>>

Begin(t, op) ==
    /\ calls < MaxCalls
    /\ Invoke(t, op, <<>>)

\* ---- start_node -----------------------------------------------------------------

\* start_node without the early return of its running check
StartCheckIgnoresRunning(t) ==
    /\ tasks[t].pc = "s_check"
    /\ tasks' = [tasks EXCEPT ![t].pc = "s_find",
                              ![t].entryRunning = node_running,
                              ![t].entryHandle = python_process,
                              ![t].peers = InFlightStarts \ {t}]
    /\ UNCHANGED <<shared, pstate, kills, nprocs, calls, destroyed, entry, budget>>

StartCheck(t) ==
    /\ tasks[t].pc = "s_check"
    /\ IF node_running
       THEN tasks' = Done(t, "AlreadyRunning")
       ELSE tasks' = [tasks EXCEPT ![t].pc = "s_find",
                                   ![t].entryRunning = node_running,
                                   ![t].entryHandle = python_process,
                                   ![t].peers = InFlightStarts \ {t}]
    /\ UNCHANGED <<shared, pstate, kills, nprocs, calls, destroyed, entry, budget>>

StartFindPython(t) ==
    /\ tasks[t].pc = "s_find"
    /\ \E found \in BOOLEAN :
          IF found
          THEN tasks' = [tasks EXCEPT ![t].pc = "s_aria", ![t].port = api_port]
          ELSE tasks' = [Done(t, "PythonNotFound") EXCEPT ![t].port = api_port]
    /\ UNCHANGED <<shared, pstate, kills, nprocs, calls, destroyed, entry, budget>>

\* start_node launching the backend before it verifies the aria package
StartCheckAriaAfterSpawn(t) ==
    /\ tasks[t].pc = "s_aria"
    /\ \E aria_ok \in BOOLEAN :
          IF aria_ok
          THEN /\ tasks' = Goto(t, "s_spawn")
               /\ UNCHANGED <<nprocs, pstate>>
          ELSE /\ nprocs < MaxProcs
               /\ nprocs' = nprocs + 1
               /\ pstate' = [pstate EXCEPT ![nprocs + 1] = "alive"]
               /\ tasks' = [Done(t, "AriaNotFound") EXCEPT ![t].child = nprocs + 1]
    /\ UNCHANGED <<shared, kills, calls, destroyed, entry, budget>>

StartCheckAria(t) ==
    /\ tasks[t].pc = "s_aria"
    /\ \E aria_ok \in BOOLEAN :
          IF aria_ok
          THEN tasks' = Goto(t, "s_spawn")
          ELSE tasks' = Done(t, "AriaNotFound")
    /\ UNCHANGED <<shared, pstate, kills, nprocs, calls, destroyed, entry, budget>>

StartSpawn(t) ==
    /\ tasks[t].pc = "s_spawn"
    /\ \/ /\ nprocs < MaxProcs
          /\ nprocs' = nprocs + 1
          /\ pstate' = [pstate EXCEPT ![nprocs + 1] = "alive"]
          /\ tasks' = [tasks EXCEPT ![t].pc = "s_store", ![t].child = nprocs + 1]
       \/ /\ tasks' = Done(t, "SpawnFailed")
          /\ UNCHANGED <<nprocs, pstate>>
    /\ UNCHANGED <<shared, kills, calls, destroyed, entry, budget>>

StartStore(t) ==
    /\ tasks[t].pc = "s_store"
    /\ python_process' = tasks[t].child
    /\ tasks' = Goto(t, "s_loop")
    /\ UNCHANGED <<node_running, api_base, api_port, start_time,
                   pstate, kills, nprocs, calls, destroyed, entry, budget>>

\* the readiness loop running one iteration more than its budget
StartLoopOneMore(t) ==
    /\ tasks[t].pc = "s_loop"
    /\ IF tasks[t].attempt <= budget
       THEN tasks' = Goto(t, "s_alive")
       ELSE tasks' = Goto(t, "s_notready")
    /\ UNCHANGED <<shared, pstate, kills, nprocs, calls, destroyed, entry, budget>>

StartLoop(t) ==
    /\ tasks[t].pc = "s_loop"
    /\ IF tasks[t].attempt < budget
       THEN tasks' = Goto(t, "s_alive")
       ELSE tasks' = Goto(t, "s_notready")
    /\ UNCHANGED <<shared, pstate, kills, nprocs, calls, destroyed, entry, budget>>

\* the liveness check reaping an exited child but going on to the probe
StartCheckAliveKeepsPolling(t) ==
    /\ tasks[t].pc = "s_alive"
    /\ IF python_process = None
       THEN /\ tasks' = Goto(t, "s_probe")
            /\ UNCHANGED <<python_process, pstate>>
       ELSE \/ /\ pstate[python_process] = "exited"
               /\ pstate' = [pstate EXCEPT ![python_process] = "reaped"]
               /\ python_process' = None
               /\ tasks' = [tasks EXCEPT ![t].pc = "s_probe", ![t].sawExit = TRUE]
            \/ /\ pstate[python_process] = "alive"
               /\ tasks' = Goto(t, "s_probe")
               /\ UNCHANGED <<python_process, pstate>>
            \/ /\ tasks' = Done(t, "CheckFailed")
               /\ UNCHANGED <<python_process, pstate>>
    /\ UNCHANGED <<node_running, api_base, api_port, start_time,
                   kills, nprocs, calls, destroyed, entry, budget>>

StartCheckAlive(t) ==
    /\ tasks[t].pc = "s_alive"
    /\ IF python_process = None
       THEN /\ tasks' = [tasks EXCEPT ![t].pc = "s_probe", ![t].checked = None]
            /\ UNCHANGED <<python_process, pstate>>
       ELSE \/ /\ pstate[python_process] = "exited"
               /\ pstate' = [pstate EXCEPT ![python_process] = "reaped"]
               /\ python_process' = None
               /\ tasks' = [Done(t, "ProcessExited") EXCEPT ![t].sawExit = TRUE]
            \/ /\ pstate[python_process] = "alive"
               /\ tasks' = [tasks EXCEPT ![t].pc = "s_probe",
                                         ![t].checked = python_process]
               /\ UNCHANGED <<python_process, pstate>>
            \/ /\ tasks' = Done(t, "CheckFailed")
               /\ UNCHANGED <<python_process, pstate>>
    /\ UNCHANGED <<node_running, api_base, api_port, start_time,
                   kills, nprocs, calls, destroyed, entry, budget>>

StartProbe(t) ==
    /\ tasks[t].pc = "s_probe"
    /\ \/ /\ BackendCanAnswer
          /\ tasks' = [tasks EXCEPT ![t].pc = "s_commit_running",
                                    ![t].probes = @ + 1,
                                    ![t].ready = TRUE]
       \/ /\ tasks' = [tasks EXCEPT ![t].pc = "s_loop",
                                    ![t].probes = @ + 1,
                                    ![t].attempt = @ + 1]
    /\ UNCHANGED <<shared, pstate, kills, nprocs, calls, destroyed, entry, budget>>

StartNotReady(t) ==
    /\ tasks[t].pc = "s_notready"
    /\ KillStored
    /\ tasks' = Done(t, "Timeout")
    /\ UNCHANGED <<node_running, api_base, api_port, start_time,
                   nprocs, calls, destroyed, entry, budget>>

\* start_node returning success without setting node_running
StartCommitLeavesRunning(t) ==
    /\ tasks[t].pc = "s_commit_running"
    /\ tasks' = Goto(t, "s_commit_base")
    /\ UNCHANGED <<node_running, api_base, api_port, python_process, start_time,
                   pstate, kills, nprocs, calls, destroyed, entry, budget>>

StartCommitRunning(t) ==
    /\ tasks[t].pc = "s_commit_running"
    /\ node_running' = TRUE
    /\ tasks' = Goto(t, "s_commit_base")
    /\ UNCHANGED <<api_base, api_port, python_process, start_time,
                   pstate, kills, nprocs, calls, destroyed, entry, budget>>

StartCommitBase(t) ==
    /\ tasks[t].pc = "s_commit_base"
    /\ api_base' = FormatBase(tasks[t].port)
    /\ tasks' = Goto(t, "s_commit_time")
    /\ UNCHANGED <<node_running, api_port, python_process, start_time,
                   pstate, kills, nprocs, calls, destroyed, entry, budget>>

StartCommitTime(t) ==
    /\ tasks[t].pc = "s_commit_time"
    /\ start_time' = SomeInstant
    /\ tasks' = Done(t, "Ok")
    /\ UNCHANGED <<node_running, api_base, api_port, python_process,
                   pstate, kills, nprocs, calls, destroyed, entry, budget>>

\* ---- stop_node and kill_python_process -----------------------------------------

\* stop_node without the early return of its running check
StopCheckIgnoresRunning(t) ==
    /\ tasks[t].pc = "p_check"
    /\ tasks' = [tasks EXCEPT ![t].pc = "p_kill",
                              ![t].entryRunning = node_running,
                              ![t].entryHandle = python_process]
    /\ UNCHANGED <<shared, pstate, kills, nprocs, calls, destroyed, entry, budget>>

StopCheck(t) ==
    /\ tasks[t].pc = "p_check"
    /\ IF ~node_running
       THEN tasks' = [Done(t, "NotRunning") EXCEPT
                         ![t].entryRunning = node_running,
                         ![t].entryHandle = python_process,
                         ![t].raced = IF \E u \in Pollers : tasks[u].child = python_process
                                      THEN python_process ELSE None]
       ELSE tasks' = [tasks EXCEPT
                         ![t].pc = "p_kill",
                         ![t].entryRunning = node_running,
                         ![t].entryHandle = python_process,
                         ![t].raced = IF \E u \in Pollers : tasks[u].child = python_process
                                      THEN python_process ELSE None]
    /\ UNCHANGED <<shared, pstate, kills, nprocs, calls, destroyed, entry, budget>>

StopKill(t) ==
    /\ tasks[t].pc = "p_kill"
    /\ KillStored
    /\ tasks' = [tasks EXCEPT ![t].pc = "p_clear_running", ![t].target = python_process]
    /\ UNCHANGED <<node_running, api_base, api_port, start_time,
                   nprocs, calls, destroyed, entry, budget>>

\* stop_node returning without resetting the running flag
StopKeepsRunning(t) ==
    /\ tasks[t].pc = "p_clear_running"
    /\ node_running' = node_running
    /\ tasks' = Goto(t, "p_clear_time")
    /\ UNCHANGED <<api_base, api_port, python_process, start_time,
                   pstate, kills, nprocs, calls, destroyed, entry, budget>>

StopClearRunning(t) ==
    /\ tasks[t].pc = "p_clear_running"
    /\ node_running' = FALSE
    /\ tasks' = Goto(t, "p_clear_time")
    /\ UNCHANGED <<api_base, api_port, python_process, start_time,
                   pstate, kills, nprocs, calls, destroyed, entry, budget>>

StopClearTime(t) ==
    /\ tasks[t].pc = "p_clear_time"
    /\ start_time' = NoTime
    /\ tasks' = Done(t, "Stopped")
    /\ UNCHANGED <<node_running, api_base, api_port, python_process,
                   pstate, kills, nprocs, calls, destroyed, entry, budget>>

\* ---- get_node_status ---------------------------------------------------------------

StatusReadRunning(t) ==
    /\ tasks[t].pc = "g_running"
    /\ tasks' = [tasks EXCEPT ![t].pc = "g_base", ![t].rRunning = node_running]
    /\ UNCHANGED <<shared, pstate, kills, nprocs, calls, destroyed, entry, budget>>

StatusReadBase(t) ==
    /\ tasks[t].pc = "g_base"
    /\ tasks' = [tasks EXCEPT ![t].pc = "g_time", ![t].rBase = api_base]
    /\ UNCHANGED <<shared, pstate, kills, nprocs, calls, destroyed, entry, budget>>

\* reads start_time, computes the uptime and returns the offline record when not running
StatusReadTime(t) ==
    /\ tasks[t].pc = "g_time"
    /\ \E elapsed \in 0..MaxElapsed :
       LET up == IF start_time = NoTime THEN 0 ELSE elapsed
       IN  IF ~tasks[t].rRunning
           THEN tasks' = [Done(t, "Ok") EXCEPT ![t].rStart = start_time,
                                               ![t].uptime = 0,
                                               ![t].outRunning = FALSE,
                                               ![t].backend = "none"]
           ELSE tasks' = [tasks EXCEPT ![t].pc = "g_probe",
                                       ![t].rStart = start_time,
                                       ![t].uptime = up]
    /\ UNCHANGED <<shared, pstate, kills, nprocs, calls, destroyed, entry, budget>>

\* what a 2xx answer of GET /v1/status carries: a backend name, a JSON body without
\* the field, or a body that is not JSON
BackendNames == {"native", "simulation"}

StatusBodies == BackendNames \cup {"absent", "malformed"}

\* get_node_status returning the not-running record whenever its probe fails
StatusProbeFailureMeansStopped(t) ==
    /\ tasks[t].pc = "g_probe"
    /\ \/ /\ BackendCanAnswer
          /\ \E body \in StatusBodies :
                IF body = "malformed"
                THEN tasks' = [Done(t, "Err") EXCEPT ![t].probes = @ + 1,
                                                     ![t].resp = "malformed"]
                ELSE tasks' = [Done(t, "Ok") EXCEPT
                                  ![t].probes = @ + 1,
                                  ![t].resp = "ok",
                                  ![t].reported = body,
                                  ![t].outRunning = TRUE,
                                  ![t].backend = IF body = "absent" THEN "unknown" ELSE body]
       \/ tasks' = [Done(t, "Ok") EXCEPT ![t].probes = @ + 1,
                                         ![t].resp = "fail",
                                         ![t].uptime = 0,
                                         ![t].outRunning = FALSE,
                                         ![t].backend = "none"]
    /\ UNCHANGED <<shared, pstate, kills, nprocs, calls, destroyed, entry, budget>>

\* get_node_status treating a failed probe as proof that the node has stopped
StatusProbeClearsRunning(t) ==
    /\ tasks[t].pc = "g_probe"
    /\ \/ /\ BackendCanAnswer
          /\ \E body \in StatusBodies :
                IF body = "malformed"
                THEN tasks' = [Done(t, "Err") EXCEPT ![t].probes = @ + 1,
                                                     ![t].resp = "malformed"]
                ELSE tasks' = [Done(t, "Ok") EXCEPT
                                  ![t].probes = @ + 1,
                                  ![t].resp = "ok",
                                  ![t].reported = body,
                                  ![t].outRunning = TRUE,
                                  ![t].backend = IF body = "absent" THEN "unknown" ELSE body]
          /\ UNCHANGED node_running
       \/ /\ tasks' = [Done(t, "Ok") EXCEPT ![t].probes = @ + 1,
                                            ![t].resp = "fail",
                                            ![t].outRunning = tasks[t].rRunning,
                                            ![t].backend = "offline"]
          /\ node_running' = FALSE
    /\ UNCHANGED <<api_base, api_port, python_process, start_time,
                   pstate, kills, nprocs, calls, destroyed, entry, budget>>

StatusProbe(t) ==
    /\ tasks[t].pc = "g_probe"
    /\ \/ /\ BackendCanAnswer
          /\ \E body \in StatusBodies :
                IF body = "malformed"
                THEN tasks' = [Done(t, "Err") EXCEPT ![t].probes = @ + 1,
                                                     ![t].resp = "malformed"]
                ELSE tasks' = [Done(t, "Ok") EXCEPT
                                  ![t].probes = @ + 1,
                                  ![t].resp = "ok",
                                  ![t].reported = body,
                                  ![t].outRunning = TRUE,
                                  ![t].backend = IF body = "absent" THEN "unknown" ELSE body]
       \/ tasks' = [Done(t, "Ok") EXCEPT ![t].probes = @ + 1,
                                         ![t].resp = "fail",
                                         ![t].outRunning = tasks[t].rRunning,
                                         ![t].backend = "offline"]
    /\ UNCHANGED <<shared, pstate, kills, nprocs, calls, destroyed, entry, budget>>

\* ---- get_models, download_model, get_energy_stats, send_inference -------------------

ProxyOps == {"models", "download", "energy", "inference"}

\* how an HTTP call ends: a response with a usable JSON body, a response whose body
\* does not parse, or no response (network error or timeout)
Responses == {"ok", "malformed", "fail"}

\* what each command returns when it reads running=false
NotRunningOutcome(op) ==
    CASE op = "models"    -> [result |-> "Ok",  payload |-> "filesystem"]
      [] op = "download"  -> [result |-> "Err", payload |-> "NotRunning"]
      [] op = "energy"    -> [result |-> "Ok",  payload |-> "zero"]
      [] op = "inference" -> [result |-> "Err", payload |-> "NotRunning"]

ModelsOutcome(resp) ==
    IF resp = "ok" THEN [result |-> "Ok", payload |-> "api"]
    ELSE [result |-> "Ok", payload |-> "filesystem"]

DownloadOutcome(resp) ==
    CASE resp = "ok"        -> [result |-> "Ok",  payload |-> "progress"]
      [] resp = "malformed" -> [result |-> "Ok",  payload |-> "queued"]
      [] resp = "fail"      -> [result |-> "Err", payload |-> "DownloadFailed"]

EnergyOutcome(resp) ==
    CASE resp = "ok"        -> [result |-> "Ok",  payload |-> "stats"]
      [] resp = "malformed" -> [result |-> "Err", payload |-> "BodyError"]
      [] resp = "fail"      -> [result |-> "Ok",  payload |-> "zero"]

InferenceOutcome(resp) ==
    CASE resp = "ok"        -> [result |-> "Ok",  payload |-> "completion"]
      [] resp = "malformed" -> [result |-> "Err", payload |-> "BodyError"]
      [] resp = "fail"      -> [result |-> "Err", payload |-> "InferenceFailed"]

RequestOutcome(op, resp) ==
    CASE op = "models"    -> ModelsOutcome(resp)
      [] op = "download"  -> DownloadOutcome(resp)
      [] op = "energy"    -> EnergyOutcome(resp)
      [] op = "inference" -> InferenceOutcome(resp)

\* get_energy_stats is registered by run() only; main() leaves it out of its handler list
Registered(op) == op = "energy" => entry = "run"

BeginProxy(t, op) ==
    /\ Registered(op)
    /\ Begin(t, op)

ProxyReadRunning(t) ==
    /\ tasks[t].pc = "x_running"
    /\ LET out == NotRunningOutcome(tasks[t].op)
       IN  IF node_running
           THEN tasks' = [tasks EXCEPT ![t].pc = "x_base", ![t].rRunning = TRUE]
           ELSE tasks' = [Done(t, out.result) EXCEPT ![t].payload = out.payload]
    /\ UNCHANGED <<shared, pstate, kills, nprocs, calls, destroyed, entry, budget>>

ProxyReadBase(t) ==
    /\ tasks[t].pc = "x_base"
    /\ tasks' = [tasks EXCEPT ![t].pc = "x_http", ![t].rBase = api_base]
    /\ UNCHANGED <<shared, pstate, kills, nprocs, calls, destroyed, entry, budget>>

ProxyRequest(t) ==
    /\ tasks[t].pc = "x_http"
    /\ \E resp \in Responses :
          /\ resp # "fail" => BackendCanAnswer
          /\ LET out == RequestOutcome(tasks[t].op, resp)
             IN  tasks' = [Done(t, out.result) EXCEPT ![t].probes = @ + 1,
                                                      ![t].resp = resp,
                                                      ![t].payload = out.payload]
    /\ UNCHANGED <<shared, pstate, kills, nprocs, calls, destroyed, entry, budget>>

\* ---- window teardown -----------------------------------------------------------------

\* WindowEvent::Destroyed: run() installs a hook that kills and waits for the stored
\* child; the builder in main() installs none.
WindowDestroyed ==
    /\ ~destroyed
    /\ destroyed' = TRUE
    /\ IF entry = "run"
       THEN KillStored
       ELSE UNCHANGED <<python_process, pstate, kills>>
    /\ UNCHANGED <<node_running, api_base, api_port, start_time,
                   nprocs, calls, entry, budget, tasks>>

\* ---- specification -------------------------------------------------------------------

Ops == {"start", "stop", "status"}

Next ==
    \/ \E p \in Procs : ProcessExits(p)
    \/ WindowDestroyed
    \/ \E t \in Tasks, op \in Ops : Begin(t, op)
    \/ \E t \in Tasks : StartCheck(t)
    \/ \E t \in Tasks : StartFindPython(t)
    \/ \E t \in Tasks : StartCheckAria(t)
    \/ \E t \in Tasks : StartSpawn(t)
    \/ \E t \in Tasks : StartStore(t)
    \/ \E t \in Tasks : StartLoop(t)
    \/ \E t \in Tasks : StartCheckAlive(t)
    \/ \E t \in Tasks : StartProbe(t)
    \/ \E t \in Tasks : StartNotReady(t)
    \/ \E t \in Tasks : StartCommitRunning(t)
    \/ \E t \in Tasks : StartCommitBase(t)
    \/ \E t \in Tasks : StartCommitTime(t)
    \/ \E t \in Tasks : StopCheck(t)
    \/ \E t \in Tasks : StopKill(t)
    \/ \E t \in Tasks : StopClearRunning(t)
    \/ \E t \in Tasks : StopClearTime(t)
    \/ \E t \in Tasks : StatusReadRunning(t)
    \/ \E t \in Tasks : StatusReadBase(t)
    \/ \E t \in Tasks : StatusReadTime(t)
    \/ \E t \in Tasks : StatusProbe(t)

Spec == Init /\ [][Next]_vars

TypeOK ==
    /\ node_running \in BOOLEAN
    /\ python_process \in {None} \cup Procs
    /\ start_time \in {NoTime, SomeInstant}
    /\ nprocs \in 0..MaxProcs
    /\ budget \in {MaxAttempts, ATTEMPT_BUDGET}
    /\ \A p \in Procs : pstate[p] \in {"none", "alive", "exited", "reaped"}

\* ---- properties ----------------------------------------------------------------------

Alive == {p \in Procs : pstate[p] = "alive"}

StartTasks == {t \in Tasks : tasks[t].op = "start"}

\* start calls that spawned a backend process
Spawners == {t \in StartTasks : tasks[t].child # None}

\* C1: two start calls that overlap, both entered with running=false and no stored
\* handle, never both spawn a process and never both return success (the loser gets
\* the "already running" error).
C1_ConcurrentStartsExclusive ==
    \A t \in StartTasks : \A u \in tasks[t].peers :
        (tasks[t].entryHandle = None /\ tasks[u].entryHandle = None)
        => /\ ~(t \in Spawners /\ u \in Spawners)
           /\ ~(tasks[t].result = "Ok" /\ tasks[u].result = "Ok")

\* C2: at most one spawned backend process is alive, and every live process is the
\* stored one or is about to be stored by the start that spawned it (none is orphaned).
C2_AtMostOneLiveProcess ==
    /\ Cardinality(Alive) <= 1
    /\ \A p \in Alive :
          \/ python_process = p
          \/ \E t \in StartTasks : tasks[t].pc = "s_store" /\ tasks[t].child = p

\* C3: a stop that arrived while a start was polling the stored process has, when it
\* returns, terminated that process.
C3_StopTerminatesPolledProcess ==
    \A t \in Tasks :
        (tasks[t].op = "stop" /\ tasks[t].pc = "done" /\ tasks[t].raced # None)
        => pstate[tasks[t].raced] # "alive"

\* C4: running=true implies a stored process handle and a set start time.
C4_RunningImpliesHandleAndTime ==
    node_running => (python_process # None /\ start_time # NoTime)

\* C5: a status call never reads running=true together with an unset start time.
C5_NoPartialRead ==
    \A t \in Tasks :
        (tasks[t].op = "status" /\ tasks[t].pc \in {"g_probe", "done"})
        => ~(tasks[t].rRunning /\ tasks[t].rStart = NoTime)

\* C6: a start that spawned a process and returned an error has left no live spawned
\* process behind, and a start that spawned and returned success committed running.
C6_SpawnHasOneDisposition ==
    \A t \in Spawners :
        tasks[t].pc = "done"
        => IF tasks[t].result = "Ok"
           THEN tasks[t].ready
           ELSE pstate[tasks[t].child] # "alive"

\* C7: between calls, running is true only while a supervised process is alive: it is
\* false initially, after a stop and after the process has died.
C7_RunningOnlyWhileProcessLives ==
    (node_running /\ \A t \in Tasks : tasks[t].pc \in {"idle", "done"})
    => Alive # {}

\* C8: the step of a start call that finds running=true ends the call with the
\* "already running" error, without a spawned child and with the whole state unchanged.
C8_StartWhileRunningRejected ==
    [][\A t \in Tasks :
          (tasks[t].pc = "s_check" /\ node_running /\ tasks'[t] # tasks[t])
          => /\ tasks'[t].pc = "done"
             /\ tasks'[t].result = "AlreadyRunning"
             /\ tasks'[t].child = None
             /\ UNCHANGED <<shared, pstate, kills, nprocs>>]_vars

C8_Witness ==
    \E t \in StartTasks :
        /\ tasks[t].pc = "done"
        /\ tasks[t].result = "AlreadyRunning"
        /\ node_running
        /\ python_process # None

\* C9: the step of a stop call that finds running=false ends the call with the
\* "not running" error: no process is killed or waited for and the state is unchanged.
C9_StopWhileNotRunningRejected ==
    [][\A t \in Tasks :
          (tasks[t].pc = "p_check" /\ ~node_running /\ tasks'[t] # tasks[t])
          => /\ tasks'[t].pc = "done"
             /\ tasks'[t].result = "NotRunning"
             /\ UNCHANGED <<shared, pstate, kills, nprocs>>]_vars

C9_Witness ==
    \E t \in Tasks :
        /\ tasks[t].op = "stop"
        /\ tasks[t].pc = "done"
        /\ tasks[t].result = "NotRunning"
        /\ tasks[t].entryHandle # None
        /\ python_process = tasks[t].entryHandle
        /\ pstate[python_process] = "alive"

\* C10: once the liveness check of a start call has observed the exit of the process,
\* the call has returned the process-exited error and issues no health probe in that
\* iteration or afterwards.
C10_ExitEndsPolling ==
    [][\A t \in Tasks :
          tasks'[t].sawExit
          => /\ tasks'[t].pc = "done"
             /\ tasks'[t].result = "ProcessExited"
             /\ tasks'[t].probes = tasks[t].probes]_vars

C10_Witness ==
    \E t \in StartTasks :
        /\ tasks[t].sawExit
        /\ tasks[t].result = "ProcessExited"
        /\ tasks[t].pc = "done"
        /\ tasks[t].attempt + 1 < budget

\* C11: a start that returned the timeout error has killed and waited for the process
\* it spawned: that process is no longer alive.
C11_TimeoutKillsSpawned ==
    \A t \in Spawners :
        (tasks[t].pc = "done" /\ tasks[t].result = "Timeout")
        => pstate[tasks[t].child] # "alive"

\* ---- sequential executions ----------------------------------------------------------------

\* no command is in progress
Quiet == \A t \in Tasks : tasks[t].pc \in {"idle", "done"}

\* what a returned call leaves for the calls that follow it
Summary(r) ==
    [op |-> r.op, result |-> r.result, polls |-> r.attempt, running |-> r.outRunning]

\* the calls that have returned in task t so far, oldest first
History(t) ==
    IF tasks[t].pc = "done" THEN Append(tasks[t].before, Summary(tasks[t])) ELSE <<>>

\* a command is invoked only after the previous one has returned; the calls of a
\* sequence run one after the other in the same task
SeqBegin(t, op) ==
    /\ \A u \in Tasks \ {t} : tasks[u].pc = "idle"
    /\ calls < MaxSeqCalls
    /\ Invoke(t, op, History(t))

\* one step of a start_node call
StartStep(t) ==
    \/ StartCheck(t)
    \/ StartFindPython(t)
    \/ StartCheckAria(t)
    \/ StartSpawn(t)
    \/ StartStore(t)
    \/ StartLoop(t)
    \/ StartCheckAlive(t)
    \/ StartProbe(t)
    \/ StartNotReady(t)
    \/ StartCommitRunning(t)
    \/ StartCommitBase(t)
    \/ StartCommitTime(t)

\* one step of a stop_node call
StopStep(t) ==
    \/ StopCheck(t)
    \/ StopKill(t)
    \/ StopClearRunning(t)
    \/ StopClearTime(t)

\* one step of a get_node_status call
StatusStep(t) ==
    \/ StatusReadRunning(t)
    \/ StatusReadBase(t)
    \/ StatusReadTime(t)
    \/ StatusProbe(t)

NextSeq ==
    \/ \E p \in Procs : ProcessExits(p)
    \/ WindowDestroyed
    \/ \E t \in Tasks, op \in Ops : SeqBegin(t, op)
    \/ \E t \in Tasks : StartStep(t)
    \/ \E t \in Tasks : StopStep(t)
    \/ \E t \in Tasks : StatusStep(t)

SpecSeq == Init /\ [][NextSeq]_vars

\* ---- start_node alone, with the code's attempt budget ---------------------------------------

FirstTask == CHOOSE t \in Tasks : \A u \in Tasks : t <= u

InitBudget ==
    /\ InitCommon
    /\ budget = ATTEMPT_BUDGET

NextBudget ==
    \/ \E p \in Procs : ProcessExits(p)
    \/ WindowDestroyed
    \/ Begin(FirstTask, "start")
    \/ StartStep(FirstTask)

SpecBudget == InitBudget /\ [][NextBudget]_vars

\* the async runtime keeps polling an invoked command until it returns
FairBudget == SpecBudget /\ WF_vars(StartStep(FirstTask))

\* C12: a start call issues at most 60 health probes and always returns; a failed probe
\* sends it back to the head of the loop, which gives up only after the 60th attempt;
\* the first successful probe leads to the commit, with no further probe, and to the
\* success result.
C12_BoundedShortCircuit ==
    /\ [](\A t \in StartTasks :
            /\ tasks[t].probes <= ATTEMPT_BUDGET
            /\ (tasks[t].pc = "s_notready" \/ tasks[t].result = "Timeout")
               => (tasks[t].attempt = ATTEMPT_BUDGET /\ ~tasks[t].ready)
            /\ (tasks[t].ready /\ tasks[t].pc = "done") => tasks[t].result = "Ok")
    /\ [][\A t \in Tasks :
            /\ (tasks[t].pc = "s_probe" /\ tasks'[t] # tasks[t])
               => tasks'[t].pc = IF tasks'[t].ready THEN "s_commit_running" ELSE "s_loop"
            /\ (tasks[t].ready /\ tasks'[t].ready)
               => tasks'[t].probes = tasks[t].probes]_vars
    /\ \A t \in Tasks :
          (tasks[t].op = "start" /\ tasks[t].pc # "done") ~> (tasks[t].pc = "done")

C12_Witness ==
    \E t \in StartTasks :
        /\ tasks[t].pc = "done"
        /\ tasks[t].result = "Timeout"
        /\ tasks[t].probes = ATTEMPT_BUDGET
        /\ pstate[tasks[t].child] = "reaped"

StatusTasks == {t \in Tasks : tasks[t].op = "status"}

\* C13: a status call that read running=false issues no network call and returns the
\* canonical offline record (running=false, uptime 0, backend "none"); one that read
\* running=true and whose probe failed returns running=true with backend "offline".
C13_StatusReconciliation ==
    \A t \in StatusTasks :
        /\ tasks[t].pc = "g_probe" => tasks[t].rRunning
        /\ (tasks[t].pc = "done" /\ ~tasks[t].rRunning)
           => /\ tasks[t].probes = 0
              /\ tasks[t].result = "Ok"
              /\ ~tasks[t].outRunning
              /\ tasks[t].uptime = 0
              /\ tasks[t].backend = "none"
        /\ (tasks[t].pc = "done" /\ tasks[t].rRunning /\ tasks[t].resp = "fail")
           => /\ tasks[t].result = "Ok"
              /\ tasks[t].outRunning
              /\ tasks[t].backend = "offline"

\* a status call found the process gone or silent while running=true and reported
\* running with the backend offline
C13_Witness ==
    \E t \in StatusTasks :
        /\ tasks[t].pc = "done"
        /\ tasks[t].rRunning
        /\ tasks[t].resp = "fail"
        /\ tasks[t].probes = 1
        /\ tasks[t].backend = "offline"

\* ---- all commands ------------------------------------------------------------------------

ProxyStep(t) ==
    \/ ProxyReadRunning(t)
    \/ ProxyReadBase(t)
    \/ ProxyRequest(t)

NextAll ==
    \/ Next
    \/ \E t \in Tasks, op \in ProxyOps : BeginProxy(t, op)
    \/ \E t \in Tasks : ProxyStep(t)

SpecAll == Init /\ [][NextAll]_vars

ReadOnlyOps == {"status"} \cup ProxyOps

\* C14: no step of a status or proxy call changes the shared state, whatever its HTTP
\* call returned, and running goes from true to false only in the clearing step of a
\* stop call.
C14_ProxiesLeaveStateAlone ==
    [][/\ \A t \in Tasks :
             (tasks[t].op \in ReadOnlyOps /\ tasks'[t] # tasks[t])
             => UNCHANGED <<shared, pstate, kills, nprocs>>
       /\ (node_running /\ ~node_running')
          => \E t \in Tasks : /\ tasks[t].op = "stop"
                              /\ tasks[t].pc = "p_clear_running"
                              /\ tasks'[t].pc = "p_clear_time"]_vars

\* a status probe failed while running=true and running is still true
C14_Witness ==
    \E t \in StatusTasks :
        /\ tasks[t].pc = "done"
        /\ tasks[t].resp = "fail"
        /\ tasks[t].rRunning
        /\ node_running

StopTasks == {t \in Tasks : tasks[t].op = "stop"}

\* C15: once a stop call has cleared running, the process it sent the termination
\* signal to has exited; and at the step in which a stop call returns success the handle
\* is absent, running is false and the start time is unset.
C15_StopClearsAfterExit ==
    /\ [](\A t \in StopTasks :
            (tasks[t].pc = "p_clear_time" \/ tasks[t].result = "Stopped")
            => (tasks[t].target # None => pstate[tasks[t].target] = "reaped"))
    /\ [][\A t \in StopTasks :
            (tasks[t].pc = "p_clear_time" /\ tasks'[t].pc = "done")
            => (python_process' = None /\ ~node_running' /\ start_time' = NoTime)]_vars

\* C16: a stop call that has sent the termination signal has issued its graceful
\* shutdown request (an HTTP request of the call) before.
C16_GracefulRequestBeforeKill ==
    \A t \in StopTasks :
        (tasks[t].pc \in {"p_clear_running", "p_clear_time"} \/ tasks[t].result = "Stopped")
        => tasks[t].probes >= 1

\* the command invoked right before the one running in task t returned res from op
Follows(t, op, res) ==
    LET h == tasks[t].before
    IN  /\ Len(h) >= 1
        /\ h[Len(h)].op = op
        /\ h[Len(h)].result = res

\* C17: in a sequential execution, a stop invoked right after a stop that returned
\* success finds the cleared state, returns the "not running" error and changes nothing:
\* no kill, no wait, every state field as the first stop left it.
C17_SecondStopNotRunning ==
    [][\A t \in StopTasks :
          (tasks[t].pc = "p_check" /\ tasks'[t] # tasks[t] /\ Follows(t, "stop", "Stopped"))
          => /\ ~node_running /\ python_process = None /\ start_time = NoTime
             /\ tasks'[t].pc = "done"
             /\ tasks'[t].result = "NotRunning"
             /\ UNCHANGED <<shared, pstate, kills, nprocs>>]_vars

C17_Witness ==
    \E t \in StopTasks :
        /\ tasks[t].pc = "done"
        /\ tasks[t].result = "NotRunning"
        /\ Follows(t, "stop", "Stopped")
        /\ \E p \in Procs : kills[p] = 1

\* C18: in a sequential execution, a status call invoked right after a start that
\* returned success reports running=true, with the backend name of the answer it got
\* from GET /v1/status; a status call invoked right after a stop that returned success
\* reports not running with uptime zero, without a network call.
C18_RoundTrip ==
    \A t \in StatusTasks :
        tasks[t].pc = "done"
        => /\ (Follows(t, "start", "Ok") /\ tasks[t].result = "Ok")
              => tasks[t].outRunning
           /\ (Follows(t, "start", "Ok") /\ tasks[t].resp = "ok")
              => /\ tasks[t].result = "Ok"
                 /\ tasks[t].reported \in BackendNames
                    => tasks[t].backend = tasks[t].reported
           /\ Follows(t, "stop", "Stopped")
              => /\ tasks[t].result = "Ok"
                 /\ ~tasks[t].outRunning
                 /\ tasks[t].uptime = 0
                 /\ tasks[t].backend = "none"
                 /\ tasks[t].probes = 0

\* the whole round trip: start succeeded after a failed poll, status reported running,
\* stop succeeded, status reports not running
C18_Witness ==
    \E t \in StatusTasks :
        /\ tasks[t].pc = "done"
        /\ ~tasks[t].outRunning
        /\ tasks[t].uptime = 0
        /\ Len(tasks[t].before) = 3
        /\ tasks[t].before[1].op = "start"
        /\ tasks[t].before[1].result = "Ok"
        /\ tasks[t].before[1].polls >= 1
        /\ tasks[t].before[2].op = "status"
        /\ tasks[t].before[2].result = "Ok"
        /\ tasks[t].before[2].running
        /\ tasks[t].before[3].op = "stop"
        /\ tasks[t].before[3].result = "Stopped"

\* C19: the step in which the window is destroyed kills and reaps the stored child and
\* clears the handle, whatever running is and whatever calls are in flight, under the
\* entry point the application runs.
C19_TeardownKillsChild ==
    [][(~destroyed /\ destroyed')
       => /\ python_process # None => pstate'[python_process] = "reaped"
          /\ python_process' = None]_vars

\* C20: a status, models, download or energy call whose HTTP request ended in a network
\* error, a timeout or an unparsable body returns success (a default payload), never an
\* error; an inference call whose request ended that way returns an error.
C20_ProxiesRecover ==
    \A t \in Tasks :
        (tasks[t].pc = "done" /\ tasks[t].resp \in {"fail", "malformed"})
        => /\ tasks[t].op \in {"status", "models", "download", "energy"}
              => tasks[t].result = "Ok"
           /\ tasks[t].op = "inference" => tasks[t].result = "Err"

ProbeErrors == {"PythonNotFound", "AriaNotFound"}

\* C21: the step in which a start call returns the interpreter-missing or the
\* package-missing error changes no state field (running, handle, start time, base URL,
\* port) and no process, and that call has spawned nothing.
C21_ProbeFailureLeavesState ==
    [][\A t \in StartTasks :
          (tasks[t].pc # "done" /\ tasks'[t].pc = "done" /\ tasks'[t].result \in ProbeErrors)
          => /\ UNCHANGED <<shared, pstate, kills, nprocs>>
             /\ tasks'[t].child = None
             /\ tasks'[t].probes = 0]_vars

\* both errors have been returned and the state is the default one
C21_Witness ==
    /\ \E t \in StartTasks : tasks[t].pc = "done" /\ tasks[t].result = "PythonNotFound"
    /\ \E t \in StartTasks : tasks[t].pc = "done" /\ tasks[t].result = "AriaNotFound"
    /\ AriaStateDefault
    /\ nprocs = 0

\* C22: every kill-and-wait and every reaping of a process happens in a step that finds
\* the process in the stored handle, not yet waited for, and removes the handle in the
\* same step; so no process is killed or waited for twice, whichever of stop, the timeout
\* cleanup of start, the exit detection of the readiness loop and the teardown hook act.
C22_NoDoubleKill ==
    /\ [](\A p \in Procs : kills[p] <= 1)
    /\ [][\A p \in Procs :
             (kills'[p] # kills[p] \/ (pstate'[p] = "reaped" /\ pstate[p] # "reaped"))
             => /\ pstate[p] \in {"alive", "exited"}
                /\ kills[p] = 0
                /\ python_process = p
                /\ python_process' = None]_vars

\* two overlapping stop calls and the teardown hook have all run their kill step and the
\* one process was killed once
C22_Witness ==
    /\ \E t \in StopTasks : \E u \in StopTasks \ {t} :
          /\ tasks[t].result = "Stopped"
          /\ tasks[u].result = "Stopped"
    /\ destroyed
    /\ entry = "run"
    /\ nprocs = 1
    /\ kills[1] = 1

\* C23: in the step in which a start call sets running=true, the stored handle is the
\* handle of the process this call spawned, and the last liveness check of the call
\* found that process alive.
C23_CommitOwnLiveProcess ==
    [][\A t \in StartTasks :
          (tasks[t].pc = "s_commit_running" /\ tasks'[t].pc = "s_commit_base")
          => /\ python_process = tasks[t].child
             /\ tasks[t].checked = tasks[t].child]_vars

\* ---- the mutexes of AriaState -----------------------------------------------------------

Mutexes == {"node_running", "api_base", "api_port", "python_process", "start_time"}

\* a command holding the python_process mutex of its liveness check over the HTTP probe
LocksHeldOverProbe(label) ==
    CASE label \in {"s_check", "s_commit_running", "p_check", "p_clear_running",
                    "g_running", "x_running"}                  -> {"node_running"}
      [] label \in {"s_commit_base", "g_base", "x_base"}       -> {"api_base"}
      [] label = "s_find"                                      -> {"api_port"}
      [] label \in {"s_store", "s_alive", "s_probe", "s_notready", "p_kill"}
                                                               -> {"python_process"}
      [] label \in {"s_commit_time", "p_clear_time", "g_time"} -> {"start_time"}
      [] OTHER                                                 -> {}

\* the mutexes a command locks in the step it takes from the position label
Locks(label) ==
    CASE label \in {"s_check", "s_commit_running", "p_check", "p_clear_running",
                    "g_running", "x_running"}                  -> {"node_running"}
      [] label \in {"s_commit_base", "g_base", "x_base"}       -> {"api_base"}
      [] label = "s_find"                                      -> {"api_port"}
      [] label \in {"s_store", "s_alive", "s_notready", "p_kill"}
                                                               -> {"python_process"}
      [] label \in {"s_commit_time", "p_clear_time", "g_time"} -> {"start_time"}
      [] OTHER                                                 -> {}

\* the positions at which a command awaits an HTTP answer, a sleep or a blocking task
AwaitSteps == {"s_aria", "s_spawn", "s_loop", "s_probe", "g_probe", "x_http"}

\* the mutexes whose guard task t holds
Held(t) == IF tasks[t].lockedAt = "none" THEN {} ELSE Locks(tasks[t].lockedAt)

Free(m) == \A u \in Tasks : m \notin Held(u)

\* lock(): blocks until the mutex is free
Acquire(t) ==
    /\ tasks[t].lockedAt = "none"
    /\ Locks(tasks[t].pc) # {}
    /\ \A m \in Locks(tasks[t].pc) : Free(m)
    /\ tasks' = [tasks EXCEPT ![t].lockedAt = tasks[t].pc]
    /\ UNCHANGED <<shared, pstate, kills, nprocs, calls, destroyed, entry, budget>>

\* the guard goes out of scope once the statement or block that took it has run
Release(t) ==
    /\ tasks[t].lockedAt \notin {"none", tasks[t].pc}
    /\ tasks' = [tasks EXCEPT ![t].lockedAt = "none"]
    /\ UNCHANGED <<shared, pstate, kills, nprocs, calls, destroyed, entry, budget>>

\* a step of a command, taken with the guard it needs and with no other guard
LockedStep(t) ==
    /\ IF Locks(tasks[t].pc) = {}
       THEN tasks[t].lockedAt = "none"
       ELSE tasks[t].lockedAt = tasks[t].pc
    /\ \/ StartStep(t)
       \/ StopStep(t)
       \/ StatusStep(t)
       \/ ProxyStep(t)

\* each of the commands under observation is invoked in a task of its own, the first
\* of them in the first task
LockedBegin(t, op) ==
    /\ tasks[t].pc = "idle"
    /\ t = FirstTask \/ tasks[FirstTask].pc # "idle"
    /\ calls < MaxLockCalls
    /\ \/ op \in Ops /\ Begin(t, op)
       \/ op \in ProxyOps /\ BeginProxy(t, op)

\* the teardown hook locks python_process for its kill and wait
LockedTeardown ==
    /\ Free("python_process")
    /\ WindowDestroyed

NextLocks ==
    \/ \E p \in Procs : ProcessExits(p)
    \/ LockedTeardown
    \/ \E t \in Tasks, op \in Ops \cup ProxyOps : LockedBegin(t, op)
    \/ \E t \in Tasks : Acquire(t)
    \/ \E t \in Tasks : LockedStep(t)
    \/ \E t \in Tasks : Release(t)

\* the state a returned, successful start_node leaves, with its backend alive
AfterStart ==
    /\ node_running = TRUE
    /\ api_base = FormatBase(DEFAULT_PORT)
    /\ api_port = DEFAULT_PORT
    /\ python_process = 1
    /\ start_time = SomeInstant
    /\ pstate = [p \in Procs |-> IF p = 1 THEN "alive" ELSE "none"]
    /\ nprocs = 1

\* the commands under observation are invoked on a fresh application or on a started
\* one, built by run() (the builder that installs the teardown hook)
InitLocks ==
    /\ \/ AriaStateDefault /\ pstate = [p \in Procs |-> "none"] /\ nprocs = 0
       \/ AfterStart
    /\ kills = [p \in Procs |-> 0]
    /\ calls = 0
    /\ destroyed = FALSE
    /\ entry = "run"
    /\ tasks = [t \in Tasks |-> IdleTask]
    /\ budget = MaxAttempts

SpecLocks == InitLocks /\ [][NextLocks]_vars

\* the async runtime keeps polling every invoked command, and a blocked lock() returns
\* once the mutex is free
FairLocks ==
    SpecLocks /\ \A t \in Tasks : WF_vars(Acquire(t) \/ LockedStep(t) \/ Release(t))

\* C24: a command never holds two mutex guards, no two commands hold the same mutex, a
\* command holds no guard in a step that awaits an HTTP answer, a sleep or a blocking task,
\* and every invoked command returns, whatever the other commands and the teardown hook do.
C24_NoDeadlock ==
    /\ [](\A t \in Tasks : Cardinality(Held(t)) <= 1)
    /\ [](\A t \in Tasks : \A u \in Tasks \ {t} : Held(t) \cap Held(u) = {})
    /\ [][\A t \in Tasks :
             (tasks[t].pc \in AwaitSteps /\ tasks'[t].pc # tasks[t].pc) => Held(t) = {}]_vars
    /\ \A t \in Tasks : (tasks[t].pc \notin {"idle", "done"}) ~> (tasks[t].pc = "done")

\* a command is blocked in lock() on a mutex another command holds
C24_Witness ==
    \E t \in Tasks : \E u \in Tasks \ {t} :
        /\ tasks[t].lockedAt = "none"
        /\ Locks(tasks[t].pc) # {}
        /\ Locks(tasks[t].pc) \subseteq Held(u)

\* C25: in a sequential execution without teardown, whenever no call is in progress,
\* running is true exactly when a process handle is stored and exactly when the start
\* time is set.
C25_SequentialAgreement ==
    (Quiet /\ ~destroyed)
    => /\ node_running <=> python_process # None
       /\ node_running <=> start_time # NoTime

====
